---------------------------- MODULE Spec2Model ----------------------------
(***************************************************************************)
(* FileTracker (server/src/libs/file-tracker.ts) as a state machine.       *)
(*                                                                         *)
(* One action is one task of the JavaScript event loop: the synchronous    *)
(* part of a handler or of a continuation, followed by the whole           *)
(* microtask drain it triggers.  The only places where a task ends and     *)
(* another one can run in between are the awaits on real I/O (getStat,     *)
(* glob, readText) and on the overridable asynchronous onUpdate hook.      *)
(*                                                                         *)
(* TrackMapItem objects live in a heap (items); the map holds references   *)
(* to them, so an item removed from the map while its update is running    *)
(* is still there and still written by that update.                        *)
(***************************************************************************)
EXTENDS Integers, Sequences, FiniteSets, TLC

\* ---------------------------------------------------------------- bounds
MaxItems   == 3   \* TrackMapItem objects ever created
MaxReloads == 3   \* getUpdatePromise calls ever made
MaxCalls   == 2   \* beFresh calls that are pending at the same time
MaxTasks   == 1   \* watch events whose getStat / glob is pending at the same time
MaxVersion == 2   \* highest document version the editor reports
MaxEvents  == 3   \* editor events, watch events and public calls delivered, no startPath
MaxRootEvents == 1   \* the same with a startPath, whose scans come on top

\* ---------------------------------------------------------------- paths
\* A path is the sequence of its characters; only startsWith is applied to it.
DirA  == <<"a">>           \* a folder, also the startPath when one is set
FileB == <<"a", "b">>      \* matches includeGlobPattern
FileC == <<"a", "c">>      \* matches includeGlobPattern
FileD == <<"a", "d">>      \* does not match includeGlobPattern
PathN == <<"n">>           \* matches excludeGlobPattern
NoPath == <<>>             \* startPath undefined

Files      == {FileB, FileC}
AllFiles   == {FileB, FileC, FileD, PathN}
AllPaths   == AllFiles \cup {DirA}
\* what the editor, the watcher and the consumer name in their events and calls
OpenedPaths  == {FileB, FileD, PathN}   \* documents the editor opens
CreatedPaths == {DirA, FileB, PathN}    \* paths of Created events
ChangedPaths == {FileB, FileD}          \* paths of Changed events
DeletedPaths == {DirA, FileB}           \* paths of Deleted events
UnTrackedPaths == {DirA, FileC}         \* paths of direct unTrackPath calls
IgnoredPaths == {FileB}                 \* paths of ignore and notIgnore
PathOrder  == <<FileB, FileC>>

IncludeMatch(p) == p \in {DirA, FileB, FileC, PathN}
ExcludeMatch(p) == p = PathN

canTrackFilePath(filePath) ==
    IF ~IncludeMatch(filePath) THEN FALSE
    ELSE IF ExcludeMatch(filePath) THEN FALSE
    ELSE TRUE

canTrackPath(fileOrFolderPath) ==
    IF ExcludeMatch(fileOrFolderPath) THEN FALSE ELSE TRUE

\* String.prototype.startsWith
startsWith(filePath, deletedPath) ==
    /\ Len(deletedPath) <= Len(filePath)
    /\ SubSeq(filePath, 1, Len(deletedPath)) = deletedPath

\* ---------------------------------------------------------- file system
\* getStat: what the path is now; "none" when it vanished.
StatResults(p) == IF p = DirA THEN {"dir", "none"} ELSE {"file", "none"}

\* glob(folder/include, {ignore: exclude, nodir}): the matching files that
\* exist in the folder when it is listed.
GlobResults(folderPath) ==
    SUBSET {f \in AllFiles : startsWith(f, folderPath) /\ canTrackFilePath(f)}

\* ----------------------------------------------------------------- state
VARIABLES
    updateImmediately,  \* option: push policy
    startPath,          \* option: NoPath or DirA
    map,                \* path -> index of its item in items, 0 when absent
    items,              \* heap of TrackMapItem objects
    ignoredFilePaths,
    allFresh,
    startPathLoaded,
    reloads,            \* every getUpdatePromise call: its item and how far it is
    calls,              \* beFresh calls
    tasks,              \* pending getStat / glob requests and who awaits them
    docVer,             \* editor: version of the open document of a file, 0 when closed
    out,                \* what the last task did: hooks fired, reads started, calls settled
    events              \* number of editor events, watch events and public calls so far

vars == <<updateImmediately, startPath, map, items, ignoredFilePaths, allFresh,
          startPathLoaded, reloads, calls, tasks, docVer, out, events>>

\* who awaits a doUpdate call: 0 is an event handler (nobody), c > 0 the beFresh call c
Handler == 0
\* who awaits a trackPath call: the watch handler (nobody), the constructor's
\* loadStartPath, or the loadStartPath of beFresh call c > 0
ByWatch == 0
ByCtor  == -1

Ev(e, i, w) == [ev |-> e, id |-> i, who |-> w]
Emit(s, e, i, w) == [s EXCEPT !.out = Append(@, Ev(e, i, w))]

InFlight(r) == r.phase \in {"read", "hook"}

\* a beFresh call that has returned is kept until the next task only
IdleCall == [phase |-> "idle", snap |-> {}, targets |-> {}, waits |-> {}]
FreeCall(c) == calls[c].phase \in {"idle", "resolved", "rejected"}

\* the program state a task works on
Store == [map |-> map, items |-> items, ignoredFilePaths |-> ignoredFilePaths,
          allFresh |-> allFresh, startPathLoaded |-> startPathLoaded,
          reloads |-> reloads,
          calls |-> [c \in 1..MaxCalls |-> IF FreeCall(c) THEN IdleCall ELSE calls[c]],
          out |-> <<>>]

Commit(s) ==
    /\ Len(s.items) <= MaxItems
    /\ Len(s.reloads) <= MaxReloads
    /\ map' = s.map
    /\ items' = s.items
    /\ ignoredFilePaths' = s.ignoredFilePaths
    /\ allFresh' = s.allFresh
    /\ startPathLoaded' = s.startPathLoaded
    /\ reloads' = s.reloads
    /\ calls' = s.calls
    /\ out' = s.out

\* an event or a call from outside is delivered
Deliver ==
    /\ events < (IF startPath = NoPath THEN MaxEvents ELSE MaxRootEvents)
    /\ events' = events + 1

\* keys of the map that are present, in iteration order
Keys(s) == SelectSeq(PathOrder, LAMBDA p : s.map[p] # 0)

\* ------------------------------------------------------------ the reload
\* getUpdatePromise up to its first await: either readText is pending, or
\* (document of an opened file) fresh is set and onUpdate is pending.
getUpdatePromise(s, i) ==
    LET item == s.items[i]
        hasDocumentBefore == item.opened /\ item.document # "null"
    IN  IF ~hasDocumentBefore
        THEN [Emit(s, "read", i, Handler) EXCEPT
                 !.reloads = Append(@, [item |-> i, phase |-> "read",
                                        hasDocumentBefore |-> FALSE])]
        ELSE [Emit(s, "onUpdate", i, Handler) EXCEPT
                 !.items[i].fresh = TRUE,
                 !.reloads = Append(@, [item |-> i, phase |-> "hook",
                                        hasDocumentBefore |-> TRUE])]

\* doUpdate that overwrites updatePromise instead of awaiting the pending one
doUpdateNoJoin(s, i, who) ==
    LET item == s.items[i]
        s0   == Emit(s, "doUpdate", i, who)
    IN  IF item.path \in s.ignoredFilePaths
        THEN Emit(s0, "skip", i, who)
        ELSE LET s1 == getUpdatePromise(s0, i) IN
             [s1 EXCEPT !.items[i].updatePromise = Len(s1.reloads)]

\* doUpdate that does not look at ignoredFilePaths
doUpdateNoIgnore(s, i, who) ==
    LET item == s.items[i]
        s0   == Emit(s, "doUpdate", i, who)
    IN  IF item.updatePromise # 0
        THEN IF InFlight(s.reloads[item.updatePromise])
             THEN Emit(s0, "join", i, who)
             ELSE Emit(s0, "throw", i, who)
        ELSE LET s1 == getUpdatePromise(s0, i) IN
             [s1 EXCEPT !.items[i].updatePromise = Len(s1.reloads)]

\* doUpdate up to its await; who is the caller that awaits its result.
\* out gets the call and what became of it: skip (ignored, returns false),
\* join (awaits the pending updatePromise), throw (awaits a rejected one),
\* or the read / onUpdate of a new getUpdatePromise.
doUpdate(s, i, who) ==
    LET item == s.items[i]
        s0   == Emit(s, "doUpdate", i, who)
    IN  IF item.path \in s.ignoredFilePaths
        THEN Emit(s0, "skip", i, who)
        ELSE IF item.updatePromise # 0
             THEN IF InFlight(s.reloads[item.updatePromise])
                  THEN Emit(s0, "join", i, who)
                  ELSE Emit(s0, "throw", i, who)
             ELSE LET s1 == getUpdatePromise(s0, i) IN
                  [s1 EXCEPT !.items[i].updatePromise = Len(s1.reloads)]

RECURSIVE UpdateAll(_, _, _)
UpdateAll(s, is, who) ==
    IF is = <<>> THEN s
    ELSE UpdateAll(doUpdate(s, Head(is), who), Tail(is), who)


\* what awaits of settled promises do in the microtask drain: a beFresh call
\* whose Promise.all is settled goes on (allFresh = true) or throws
SettleCall(s, c) ==
    LET call == s.calls[c] IN
    IF call.phase # "wait" THEN s
    ELSE IF \E pid \in call.waits : s.reloads[pid].phase = "failed"
         THEN [Emit(s, "rejected", c, c) EXCEPT !.calls[c].phase = "rejected"]
         ELSE IF \A pid \in call.waits : s.reloads[pid].phase = "done"
              THEN [Emit(s, "resolved", c, c) EXCEPT !.calls[c].phase = "resolved",
                                                     !.allFresh = TRUE]
              ELSE s

RECURSIVE SettleFrom(_, _)
SettleFrom(s, c) ==
    IF c > MaxCalls THEN s ELSE SettleFrom(SettleCall(s, c), c + 1)

\* ------------------------------------------------------------- tracking
NewItem(filePath, document, version, opened) ==
    [path |-> filePath, document |-> document, version |-> version,
     opened |-> opened, fresh |-> FALSE, updatePromise |-> 0]

\* handleTrackFollowed that fires onTrack whatever the policy
handleTrackFollowedLazy(s, i) ==
    Emit([s EXCEPT !.allFresh = FALSE], "onTrack", i, Handler)

handleTrackFollowed(s, i) ==
    IF updateImmediately
    THEN doUpdate(s, i, Handler)
    ELSE Emit([s EXCEPT !.allFresh = FALSE], "onTrack", i, Handler)

\* trackFile that does not look for an existing item
trackFileAgain(s, filePath) ==
    LET i == Len(s.items) + 1 IN
    handleTrackFollowed(
        [s EXCEPT !.items = Append(@, NewItem(filePath, "null", 0, FALSE)),
                  !.map[filePath] = i], i)

trackFile(s, filePath) ==
    IF s.map[filePath] = 0
    THEN LET i == Len(s.items) + 1 IN
         handleTrackFollowed(
             [s EXCEPT !.items = Append(@, NewItem(filePath, "null", 0, FALSE)),
                       !.map[filePath] = i], i)
    ELSE Emit(s, "tracked", s.map[filePath], Handler)

RECURSIVE trackFiles(_, _)
trackFiles(s, filePaths) ==
    IF filePaths = <<>> THEN s
    ELSE trackFiles(trackFile(s, Head(filePaths)), Tail(filePaths))

handleExpired(s, i) ==
    IF ~s.items[i].opened /\ updateImmediately
    THEN doUpdate(s, i, Handler)
    ELSE Emit([s EXCEPT !.items[i].fresh = FALSE, !.allFresh = FALSE],
              "onExpired", i, Handler)

reTrackFile(s, filePath) ==
    LET i == s.map[filePath] IN
    IF i # 0
    THEN IF s.items[i].opened
         THEN IF ~s.items[i].fresh /\ updateImmediately
              THEN doUpdate(s, i, Handler)
              ELSE s
         ELSE handleExpired([s EXCEPT !.items[i].document = "null",
                                      !.items[i].version = 0], i)
    ELSE trackFile(s, filePath)

\* trackOpenedFile that expires a fresh item whatever the version
trackOpenedFileAlways(s, filePath, version) ==
    LET i == s.map[filePath] IN
    IF i # 0
    THEN LET s1 == [s EXCEPT !.items[i].document = "buffer",
                             !.items[i].version = version,
                             !.items[i].opened = TRUE]
         IN  IF s1.items[i].fresh THEN handleExpired(s1, i) ELSE s1
    ELSE LET j == Len(s.items) + 1 IN
         handleTrackFollowed(
             [s EXCEPT !.items = Append(@, NewItem(filePath, "buffer", version, TRUE)),
                       !.map[filePath] = j], j)

\* trackOpenedFile that attaches the document only when its version is greater
trackOpenedFileNewer(s, filePath, version) ==
    LET i == s.map[filePath] IN
    IF i # 0
    THEN LET changed == version > s.items[i].version
             s1 == IF changed
                   THEN [s EXCEPT !.items[i].document = "buffer",
                                  !.items[i].version = version,
                                  !.items[i].opened = TRUE]
                   ELSE s
         IN  IF changed /\ s1.items[i].fresh THEN handleExpired(s1, i) ELSE s1
    ELSE LET j == Len(s.items) + 1 IN
         handleTrackFollowed(
             [s EXCEPT !.items = Append(@, NewItem(filePath, "buffer", version, TRUE)),
                       !.map[filePath] = j], j)

trackOpenedFile(s, filePath, version) ==
    LET i == s.map[filePath] IN
    IF i # 0
    THEN LET changed == version > s.items[i].version
             s1 == [s EXCEPT !.items[i].document = "buffer",
                             !.items[i].version = version,
                             !.items[i].opened = TRUE]
         IN  IF changed /\ s1.items[i].fresh THEN handleExpired(s1, i) ELSE s1
    ELSE LET j == Len(s.items) + 1 IN
         handleTrackFollowed(
             [s EXCEPT !.items = Append(@, NewItem(filePath, "buffer", version, TRUE)),
                       !.map[filePath] = j], j)

\* unTrackOpenedFile that also expires the record
unTrackOpenedFileStale(s, filePath) ==
    LET i == IF filePath \in Files THEN s.map[filePath] ELSE 0 IN
    IF i # 0
    THEN [s EXCEPT !.items[i].document = "null",
                   !.items[i].version = 1,
                   !.items[i].opened = FALSE,
                   !.items[i].fresh = FALSE,
                   !.allFresh = FALSE]
    ELSE s

unTrackOpenedFile(s, filePath) ==
    LET i == IF filePath \in Files THEN s.map[filePath] ELSE 0 IN
    IF i # 0
    THEN [s EXCEPT !.items[i].document = "null",
                   !.items[i].version = 1,
                   !.items[i].opened = FALSE]
    ELSE s

\* unTrackPath that removes the deleted path only, not what is below it
RECURSIVE unTrackKeysExact(_, _, _)
unTrackKeysExact(s, keys, deletedPath) ==
    IF keys = <<>> THEN s
    ELSE LET filePath == Head(keys)
             i == s.map[filePath]
         IN  unTrackKeysExact(
                 IF filePath = deletedPath /\ i # 0
                 THEN Emit([s EXCEPT !.map[filePath] = 0,
                                     !.ignoredFilePaths = @ \ {filePath}],
                           "onUnTrack", i, Handler)
                 ELSE s,
                 Tail(keys), deletedPath)

RECURSIVE unTrackKeys(_, _, _)
unTrackKeys(s, keys, deletedPath) ==
    IF keys = <<>> THEN s
    ELSE LET filePath == Head(keys)
             i == s.map[filePath]
         IN  unTrackKeys(
                 IF startsWith(filePath, deletedPath) /\ i # 0
                 THEN Emit([s EXCEPT !.map[filePath] = 0,
                                     !.ignoredFilePaths = @ \ {filePath}],
                           "onUnTrack", i, Handler)
                 ELSE s,
                 Tail(keys), deletedPath)

unTrackPath(s, deletedPath) ==
    [unTrackKeys(s, Keys(s), deletedPath) EXCEPT !.allFresh = FALSE]

\* ---------------------------------------------------------------- beFresh
\* the part of beFresh after loadStartPath: doUpdate for every item that is
\* not fresh, then await Promise.all
StaleItems(s) ==
    LET keys == Keys(s)
        all  == [k \in 1..Len(keys) |-> s.map[keys[k]]]
    IN  SelectSeq(all, LAMBDA i : ~s.items[i].fresh)

Range(seq) == {seq[k] : k \in 1..Len(seq)}

FreshLoop(s, c) ==
    LET stale   == StaleItems(s)
        targets == {i \in Range(stale) : s.items[i].path \notin s.ignoredFilePaths}
        s1      == UpdateAll(s, stale, c)
        waits   == {s1.items[i].updatePromise : i \in targets}
    IN  SettleCall([s1 EXCEPT !.calls[c].phase = "wait",
                              !.calls[c].targets = targets,
                              !.calls[c].waits = waits], c)

\* what runs when a trackPath call returns, by who awaits it
AfterTrackPath(s, owner) ==
    IF owner = ByWatch THEN s
    ELSE IF owner = ByCtor THEN [s EXCEPT !.startPathLoaded = TRUE]
    ELSE FreshLoop([s EXCEPT !.startPathLoaded = TRUE], owner)

\* -------------------------------------------------------------------- Init
Init ==
    /\ updateImmediately \in BOOLEAN
    /\ startPath \in {NoPath, DirA}
    /\ map = [p \in Files |-> 0]
    /\ items = <<>>
    /\ ignoredFilePaths = {}
    /\ startPathLoaded = (startPath = NoPath)
    /\ allFresh = (startPath = NoPath)
    /\ reloads = <<>>
    /\ calls = [c \in 1..MaxCalls |-> IdleCall]
    /\ tasks = IF startPath # NoPath /\ updateImmediately /\ canTrackPath(startPath)
               THEN {[kind |-> "stat", path |-> startPath, owner |-> ByCtor]}
               ELSE {}
    /\ docVer = [p \in Files |-> 0]
    /\ out = <<>>
    /\ events = 0

\* ------------------------------------------------------- editor documents
onDocumentOpenOrContentChanged(filePath, version) ==
    /\ filePath \in OpenedPaths
    /\ version \in 1..MaxVersion
    /\ filePath \in Files => version > docVer[filePath]
    /\ IF canTrackFilePath(filePath)
       THEN /\ Commit(trackOpenedFile(Store, filePath, version))
            /\ docVer' = [docVer EXCEPT ![filePath] = version]
       ELSE Commit(Store) /\ UNCHANGED docVer
    /\ Deliver
    /\ UNCHANGED <<updateImmediately, startPath, tasks>>

onDocumentSaved(filePath) ==
    /\ filePath \in OpenedPaths
    /\ filePath \in Files => docVer[filePath] > 0
    /\ LET i == IF filePath \in Files THEN map[filePath] ELSE 0 IN
       IF i # 0 /\ ~items[i].fresh /\ updateImmediately
       THEN Commit(doUpdate(Store, i, Handler))
       ELSE Commit(Store)
    /\ Deliver
    /\ UNCHANGED <<updateImmediately, startPath, tasks, docVer>>

onDocumentClosed(filePath) ==
    /\ filePath \in OpenedPaths
    /\ filePath \in Files => docVer[filePath] > 0
    /\ Commit(unTrackOpenedFile(Store, filePath))
    /\ docVer' = IF filePath \in Files THEN [docVer EXCEPT ![filePath] = 0] ELSE docVer
    /\ Deliver
    /\ UNCHANGED <<updateImmediately, startPath, tasks>>

\* ------------------------------------------------------------ watched files
\* onWatchedPathChanged for one change.  The loop over a batch keeps nothing
\* but its position, and nothing of this class runs between two changes that
\* could not run between two batches, so a batch is its changes in a row.

WatchTasks == {t \in tasks : t.owner = ByWatch}

\* FileChangeType.Created: trackPath up to its await of getStat
WatchCreated(fileOrFolderPath) ==
    /\ fileOrFolderPath \in CreatedPaths
    /\ IF canTrackPath(fileOrFolderPath)
       THEN /\ Cardinality(WatchTasks) < MaxTasks
            /\ tasks' = tasks \cup {[kind |-> "stat", path |-> fileOrFolderPath,
                                     owner |-> ByWatch]}
       ELSE UNCHANGED tasks
    /\ Commit(Store)
    /\ Deliver
    /\ UNCHANGED <<updateImmediately, startPath, docVer>>

\* FileChangeType.Changed: up to the await of getStat
WatchChanged(fileOrFolderPath) ==
    /\ fileOrFolderPath \in ChangedPaths
    /\ Cardinality(WatchTasks) < MaxTasks
    /\ tasks' = tasks \cup {[kind |-> "change", path |-> fileOrFolderPath,
                             owner |-> ByWatch]}
    /\ Commit(Store)
    /\ Deliver
    /\ UNCHANGED <<updateImmediately, startPath, docVer>>

\* FileChangeType.Deleted
WatchDeleted(fileOrFolderPath) ==
    /\ fileOrFolderPath \in DeletedPaths
    /\ Deliver
    /\ UNCHANGED <<updateImmediately, startPath, tasks, docVer>>
    /\ Commit(unTrackPath(Store, fileOrFolderPath))

\* getStat answers
StatDone(t, stat) ==
    /\ t \in tasks
    /\ t.kind \in {"stat", "change"}
    /\ stat \in StatResults(t.path)
    /\ IF t.kind = "change"
       THEN /\ tasks' = tasks \ {t}
            /\ IF stat = "file" /\ canTrackFilePath(t.path)
               THEN Commit(reTrackFile(Store, t.path))
               ELSE Commit(Store)
       ELSE IF stat = "dir"
       THEN \* trackFolder up to its await of glob
            /\ tasks' = (tasks \ {t}) \cup {[t EXCEPT !.kind = "glob"]}
            /\ Commit(Store)
       ELSE /\ tasks' = tasks \ {t}
            /\ IF stat = "file" /\ canTrackFilePath(t.path)
               THEN Commit(AfterTrackPath(trackFile(Store, t.path), t.owner))
               ELSE Commit(AfterTrackPath(Store, t.owner))
    /\ UNCHANGED <<updateImmediately, startPath, docVer, events>>

\* glob answers: the rest of trackFolder
GlobDone(t, found) ==
    /\ t \in tasks
    /\ t.kind = "glob"
    /\ found \in GlobResults(t.path)
    /\ tasks' = tasks \ {t}
    /\ Commit(AfterTrackPath(
           trackFiles(Store, SelectSeq(PathOrder, LAMBDA p : p \in found)), t.owner))
    /\ UNCHANGED <<updateImmediately, startPath, docVer, events>>

\* ------------------------------------------------------------ public calls
ignore(filePath) ==
    /\ filePath \in IgnoredPaths
    /\ Commit([Store EXCEPT !.ignoredFilePaths = @ \cup {filePath}])
    /\ Deliver
    /\ UNCHANGED <<updateImmediately, startPath, tasks, docVer>>

\* out gets the call, with the record of the path (0 when it has none)
notIgnore(filePath) ==
    /\ filePath \in IgnoredPaths
    /\ Commit(Emit([Store EXCEPT !.ignoredFilePaths = @ \ {filePath}],
                   "notIgnore", map[filePath], Handler))
    /\ Deliver
    /\ UNCHANGED <<updateImmediately, startPath, tasks, docVer>>

UnTrackPathCall(deletedPath) ==
    /\ deletedPath \in UnTrackedPaths
    /\ Deliver
    /\ UNCHANGED <<updateImmediately, startPath, tasks, docVer>>
    /\ Commit(unTrackPath(Store, deletedPath))

\* beFresh that does not look at allFresh
beFreshNoShortcut(c) ==
    /\ c \in 1..MaxCalls
    /\ FreeCall(c)
    /\ \A d \in 1..(c - 1) : ~FreeCall(d)
    /\ LET s0 == [Store EXCEPT !.calls[c] =
                     [phase |-> "scan", snap |-> {map[p] : p \in Files} \ {0},
                      targets |-> {}, waits |-> {}]]
       IN  IF ~startPathLoaded /\ canTrackPath(startPath)
           THEN /\ tasks' = tasks \cup {[kind |-> "stat", path |-> startPath, owner |-> c]}
                /\ Commit(s0)
           ELSE /\ Commit(FreshLoop([s0 EXCEPT !.startPathLoaded = TRUE], c))
                /\ UNCHANGED tasks
    /\ Deliver
    /\ UNCHANGED <<updateImmediately, startPath, docVer>>

\* beFresh() is called; c is the call
beFresh(c) ==
    /\ c \in 1..MaxCalls
    /\ FreeCall(c)
    /\ \A d \in 1..(c - 1) : ~FreeCall(d)
    /\ LET s0 == [Store EXCEPT !.calls[c] =
                     [phase |-> "scan", snap |-> {map[p] : p \in Files} \ {0},
                      targets |-> {}, waits |-> {}]]
       IN  IF allFresh
           THEN /\ Commit([Emit(s0, "resolved", c, c) EXCEPT !.calls[c].phase = "resolved"])
                /\ UNCHANGED tasks
           ELSE IF ~startPathLoaded /\ canTrackPath(startPath)
           THEN \* loadStartPath: trackPath up to its await of getStat
                /\ tasks' = tasks \cup {[kind |-> "stat", path |-> startPath, owner |-> c]}
                /\ Commit(s0)
           ELSE /\ Commit(FreshLoop([s0 EXCEPT !.startPathLoaded = TRUE], c))
                /\ UNCHANGED tasks
    /\ Deliver
    /\ UNCHANGED <<updateImmediately, startPath, docVer>>

\* ------------------------------------------------------ reload continuations
\* ReadDone that lets the error of readText through: the reload fails
ReadDoneThrow(pid, ok) ==
    /\ pid \in 1..Len(reloads)
    /\ reloads[pid].phase = "read"
    /\ LET i == reloads[pid].item
           s1 == [Store EXCEPT !.items[i].document = "file",
                               !.items[i].version = 1,
                               !.items[i].fresh = TRUE,
                               !.reloads[pid].phase = "hook"]
       IN  IF ok
           THEN Commit(Emit(s1, "onUpdate", i, Handler))
           ELSE Commit(SettleFrom([Store EXCEPT !.reloads[pid].phase = "failed"], 1))
    /\ UNCHANGED <<updateImmediately, startPath, tasks, docVer, events>>

\* readText answers (ok) or throws: the rest of loadDocumentFromFilePath and
\* getUpdatePromise up to its await of onUpdate
ReadDone(pid, ok) ==
    /\ pid \in 1..Len(reloads)
    /\ reloads[pid].phase = "read"
    /\ LET i == reloads[pid].item
           s1 == [Store EXCEPT !.items[i].document = IF ok THEN "file" ELSE "null",
                               !.items[i].version = IF ok THEN 1 ELSE @,
                               !.items[i].fresh = TRUE,
                               !.reloads[pid].phase = "hook"]
       IN  Commit(Emit(s1, "onUpdate", i, Handler))
    /\ UNCHANGED <<updateImmediately, startPath, tasks, docVer, events>>

\* the promise of onUpdate is settled: the rest of getUpdatePromise, then the
\* rest of every doUpdate that awaits it, then the beFresh calls that await those
HookDone(pid, ok) ==
    /\ pid \in 1..Len(reloads)
    /\ reloads[pid].phase = "hook"
    /\ LET i == reloads[pid].item
           s1 == IF ok
                 THEN [Store EXCEPT !.reloads[pid].phase = "done",
                                    !.items[i].updatePromise = 0]
                 ELSE [Store EXCEPT !.reloads[pid].phase = "failed"]
       IN  Commit(SettleFrom(s1, 1))
    /\ UNCHANGED <<updateImmediately, startPath, tasks, docVer, events>>

\* -------------------------------------------------------------------- Next
Next ==
    \/ \E p \in OpenedPaths, v \in 1..MaxVersion : onDocumentOpenOrContentChanged(p, v)
    \/ \E p \in OpenedPaths : onDocumentSaved(p)
    \/ \E p \in OpenedPaths : onDocumentClosed(p)
    \/ \E p \in CreatedPaths : WatchCreated(p)
    \/ \E p \in ChangedPaths : WatchChanged(p)
    \/ \E p \in DeletedPaths : WatchDeleted(p)
    \/ \E t \in tasks, r \in {"file", "dir", "none"} : StatDone(t, r)
    \/ \E t \in tasks, found \in SUBSET Files : GlobDone(t, found)
    \/ \E p \in IgnoredPaths : ignore(p)
    \/ \E p \in IgnoredPaths : notIgnore(p)
    \/ \E p \in UnTrackedPaths : UnTrackPathCall(p)
    \/ \E c \in 1..MaxCalls : beFresh(c)
    \/ \E pid \in 1..MaxReloads, ok \in BOOLEAN : ReadDone(pid, ok)
    \/ \E pid \in 1..MaxReloads, ok \in BOOLEAN : HookDone(pid, ok)

Spec == Init /\ [][Next]_vars

\* getStat, glob, readText and onUpdate settle once they are called; events
\* and calls from outside may stop coming at any time
Fairness ==
    /\ \A t \in [kind : {"stat", "change", "glob"}, path : AllPaths,
                  owner : ByCtor..MaxCalls] :
           /\ WF_vars(\E r \in {"file", "dir", "none"} : StatDone(t, r))
           /\ WF_vars(\E found \in SUBSET Files : GlobDone(t, found))
    /\ \A pid \in 1..MaxReloads :
           /\ WF_vars(\E ok \in BOOLEAN : ReadDone(pid, ok))
           /\ WF_vars(\E ok \in BOOLEAN : HookDone(pid, ok))

LiveSpec == Spec /\ Fairness

\* the tracker some calls later: FileB is ignored and has a closed record
\* that was never loaded (ignore(FileB) and a Created event for FileB, in
\* either order; under updateImmediately the ignore came first)
InitIgnored ==
    /\ updateImmediately \in BOOLEAN
    /\ startPath = NoPath
    /\ map = [p \in Files |-> IF p = FileB THEN 1 ELSE 0]
    /\ items = <<NewItem(FileB, "null", 0, FALSE)>>
    /\ ignoredFilePaths = {FileB}
    /\ startPathLoaded = TRUE
    /\ allFresh = updateImmediately
    /\ reloads = <<>>
    /\ calls = [c \in 1..MaxCalls |-> IdleCall]
    /\ tasks = {}
    /\ docVer = [p \in Files |-> 0]
    /\ out = <<>>
    /\ events = 0

SpecIgnored == InitIgnored /\ [][Next]_vars

TypeOK ==
    /\ updateImmediately \in BOOLEAN
    /\ Len(items) <= MaxItems
    /\ Len(reloads) <= MaxReloads
    /\ \A p \in Files : map[p] \in 0..Len(items)

\* ------------------------------------------------------- shared by the claims
\* updates of item i that are running
ReloadsOf(rs, i) == {q \in 1..Len(rs) : rs[q].item = i /\ InFlight(rs[q])}
\* updates that are running on files of the path
ReloadsOn(p) == {q \in 1..Len(reloads) : InFlight(reloads[q]) /\ items[reloads[q].item].path = p}
\* how often the task fired a hook (or started a read) for item i
Count(o, e, i) == Cardinality({k \in 1..Len(o) : o[k].ev = e /\ o[k].id = i})
\* an update of item i was running before the task
Reloading(i) ==
    /\ i \in 1..Len(items)
    /\ items[i].updatePromise # 0
    /\ InFlight(reloads[items[i].updatePromise])

\* ---------------------------------------------------------------------- C1
\* A doUpdate request for an item that is not ignored and whose update is
\* running starts nothing
JoinStep ==
    \A k \in 1..Len(out') :
        LET e == out'[k] IN
        (e.ev = "doUpdate" /\ Reloading(e.id) /\ items[e.id].path \notin ignoredFilePaths)
        => /\ Count(out', "read", e.id) = 0
           /\ Count(out', "onUpdate", e.id) = 0
           /\ ReloadsOf(reloads', e.id) = {items[e.id].updatePromise}
           /\ items'[e.id].updatePromise = items[e.id].updatePromise
           /\ e.who > 0 => /\ calls'[e.who].phase # "resolved"
                           /\ items[e.id].updatePromise \in calls'[e.who].waits

\* a beFresh call that awaits updates returns when they all have completed
JoinedComplete ==
    \A c \in 1..MaxCalls :
        (calls[c].phase = "wait" /\ calls'[c].phase = "resolved")
        => \A pid \in calls[c].waits : reloads'[pid].phase = "done"

\* C1: single-flight join.  Requests for an item made while an update of it
\* is running start no second update (no disk read, no onUpdate): one item
\* never has two running updates, and the requesters return only when that
\* one update has completed.
C1_SingleFlightJoin ==
    /\ [][JoinStep /\ JoinedComplete]_vars
    /\ [](\A i \in 1..Len(items) : Cardinality(ReloadsOf(reloads, i)) <= 1)

\* a beFresh call has just joined the update of an item whose read is pending
C1_Witness ==
    \E k \in 1..Len(out) :
        /\ out[k].ev = "join"
        /\ out[k].who > 0
        /\ calls[out[k].who].phase = "wait"
        /\ items[out[k].id].updatePromise \in calls[out[k].who].waits
        /\ reloads[items[out[k].id].updatePromise].phase = "read"

\* ---------------------------------------------------------------------- C2
\* C2: in every reachable state at most one reload (disk read followed by
\* onUpdate) is in flight for any given path.
C2_OneReloadPerPath ==
    \A p \in Files : Cardinality(ReloadsOn(p)) <= 1

\* ---------------------------------------------------------------------- C3
\* C3: barrier completeness.  When a beFresh call resolves, every record that
\* was in the map when it was called is fresh.
C3_BarrierComplete ==
    \A c \in 1..MaxCalls :
        calls[c].phase = "resolved" => \A i \in calls[c].snap : items[i].fresh

\* ---------------------------------------------------------------------- C4
\* C4: when a beFresh call resolves, no reload of a tracked record is
\* outstanding (disk read or onUpdate hook still pending).
C4_NoReloadOutstanding ==
    \A c \in 1..MaxCalls :
        calls[c].phase = "resolved"
        => \A q \in 1..Len(reloads) :
               InFlight(reloads[q])
               => map[items[reloads[q].item].path] # reloads[q].item

\* ---------------------------------------------------------------------- C5
\* C5: allFresh = true implies that the start path is loaded and that every
\* record in the map is fresh.
C5_AllFreshMeansFresh ==
    allFresh => /\ startPathLoaded
                /\ \A p \in Files : map[p] # 0 => items[map[p]].fresh

\* ---------------------------------------------------------------------- C6
\* C6: a fresh record has no reload in flight and no pending updatePromise.
C6_FreshNotReloading ==
    \A i \in 1..Len(items) :
        items[i].fresh => /\ items[i].updatePromise = 0
                          /\ ReloadsOf(reloads, i) = {}

\* ---------------------------------------------------------------------- C7
\* what a task may do to a path that is ignored when the task starts
IgnoredStep(p) ==
    /\ \A q \in (Len(reloads) + 1)..Len(reloads') : items'[reloads'[q].item].path # p
    /\ \A k \in 1..Len(out') :
           (out'[k].ev \in {"read", "onUpdate"} /\ items'[out'[k].id].path = p)
           => /\ out'[k].ev # "read"
              /\ out'[k].ev = "onUpdate"
                 => \E pid \in 1..Len(reloads) : /\ reloads[pid].item = out'[k].id
                                                 /\ reloads[pid].phase = "read"
                                                 /\ reloads'[pid].phase = "hook"
    /\ (map[p] # 0 /\ p \in ignoredFilePaths') => map'[p] = map[p]

\* C7: ignore suppression.  While a path is in ignoredFilePaths no update of
\* it starts: no task starts a disk read of it, onUpdate is invoked for it
\* only by a read that was started before, and its record stays in the map
\* as long as the path stays ignored.
C7_IgnoreSuppression ==
    [][\A p \in ignoredFilePaths : IgnoredStep(p)]_vars

\* doUpdate has just been called for the stale record of an ignored path
\* and has left it alone
C7_Witness ==
    \E k \in 1..Len(out) :
        /\ out[k].ev = "doUpdate"
        /\ items[out[k].id].path \in ignoredFilePaths
        /\ map[items[out[k].id].path] = out[k].id
        /\ ~items[out[k].id].fresh
        /\ items[out[k].id].updatePromise = 0

\* ---------------------------------------------------------------------- C8
Cascade(deletedPath) ==
    /\ \A f \in Files :
           IF startsWith(f, deletedPath)
           THEN /\ map'[f] = 0
                /\ map[f] # 0 => /\ f \notin ignoredFilePaths'
                                 /\ Count(out', "onUnTrack", map[f]) = 1
           ELSE map'[f] = map[f]
    /\ Len(out') = Cardinality({f \in Files : startsWith(f, deletedPath) /\ map[f] # 0})
    /\ \A k \in 1..Len(out') : out'[k].ev = "onUnTrack"
    /\ allFresh' = FALSE

\* C8: directory delete cascade.  unTrackPath(p), also when a Deleted event
\* calls it, removes exactly the records whose path starts with p, fires
\* onUnTrack once for each of them and nothing else, takes their paths out
\* of ignoredFilePaths and sets allFresh to false.
C8_DeleteCascade ==
    [][\A p \in DeletedPaths \cup UnTrackedPaths :
           (UnTrackPathCall(p) \/ WatchDeleted(p)) => Cascade(p)]_vars

\* two records have just been removed by one unTrackPath
C8_Witness ==
    /\ Len(out) = 2
    /\ out[1].ev = "onUnTrack" /\ out[2].ev = "onUnTrack"
    /\ out[1].id # out[2].id
    /\ \A f \in Files : map[f] = 0
    /\ ~allFresh

\* ---------------------------------------------------------------------- C9
NoOp ==
    /\ UNCHANGED <<map, items, ignoredFilePaths, allFresh, startPathLoaded, reloads>>
    /\ \A c \in 1..MaxCalls : ~FreeCall(c) => calls'[c] = calls[c]
    /\ \A k \in 1..Len(out') : out'[k].ev = "tracked"

\* trackFile is called, from a Created event, for paths that all have a record
ReTracked ==
    \E t \in WatchTasks :
        \/ /\ t.kind = "stat" /\ t.path \in Files /\ map[t.path] # 0
           /\ StatDone(t, "file")
        \/ /\ t.kind = "glob"
           /\ \E found \in GlobResults(t.path) : /\ \A f \in found : map[f] # 0
                                                 /\ GlobDone(t, found)

\* C9: idempotent re-track.  trackFile on a path that has a record changes
\* nothing: the same single record with its content, version, open flag and
\* freshness, the same allFresh, no hook and no reload.
C9_ReTrackNoOp ==
    [][ReTracked => NoOp]_vars

\* trackFile has just been called for a path whose record is fresh
C9_Witness ==
    /\ Len(out) = 1
    /\ out[1].ev = "tracked"
    /\ map[items[out[1].id].path] = out[1].id
    /\ items[out[1].id].fresh
    /\ items[out[1].id].version = 1
    /\ allFresh

\* --------------------------------------------------------------------- C10
OpenedCycle(filePath, version) ==
    LET i == map[filePath] IN
    IF items[i].fresh /\ version > items[i].version
    THEN \/ /\ ~items'[i].fresh
            /\ Count(out', "onExpired", i) = 1
            /\ Len(reloads') = Len(reloads)
         \/ /\ Count(out', "onExpired", i) = 0
            /\ Len(reloads') = Len(reloads) + 1
            /\ reloads'[Len(reloads')].item = i
    ELSE /\ Count(out', "onExpired", i) = 0
         /\ Len(reloads') = Len(reloads)

\* C10: a document event for a tracked record that is fresh, with a version
\* greater than the record's, is followed by exactly one expire-or-reload
\* cycle (not fresh and one onExpired, or one reload started); for a record
\* that is not fresh, or a version that is not greater, no onExpired fires
\* and no reload starts.
C10_OpenedExpiresOnce ==
    [][\A p \in Files, v \in 1..MaxVersion :
          (map[p] # 0 /\ onDocumentOpenOrContentChanged(p, v)) => OpenedCycle(p, v)]_vars

\* a document event has just expired the fresh record of a file that was
\* read from disk before
C10_Witness ==
    /\ Len(out) = 1
    /\ out[1].ev = "onExpired"
    /\ items[out[1].id].opened
    /\ items[out[1].id].document = "buffer"
    /\ items[out[1].id].version = 2
    /\ ~items[out[1].id].fresh
    /\ \E q \in 1..Len(reloads) : reloads[q].item = out[1].id /\ reloads[q].phase = "done"

\* --------------------------------------------------------------------- C11
\* what a close event may change: document, version and opened of the record
\* of the path, nothing when the path has no record
Closed(filePath) ==
    LET i == IF filePath \in Files THEN map[filePath] ELSE 0 IN
    /\ UNCHANGED <<map, ignoredFilePaths, allFresh, startPathLoaded, reloads>>
    /\ out' = <<>>
    /\ \A c \in 1..MaxCalls : ~FreeCall(c) => calls'[c] = calls[c]
    /\ IF i # 0
       THEN items' = [items EXCEPT ![i].document = "null",
                                   ![i].version = 1,
                                   ![i].opened = FALSE]
       ELSE items' = items

\* C11: a close event on a tracked record detaches the document, sets the
\* version to 1 and opened to false; fresh, allFresh, ignoredFilePaths and
\* the map stay as they are, no hook fires and no reload starts.  On a path
\* without a record it changes nothing.
C11_CloseKeepsFresh ==
    [][\A p \in OpenedPaths : onDocumentClosed(p) => Closed(p)]_vars

\* the document of a fresh record has been closed: the record is still
\* fresh and in the map
C11_Witness ==
    /\ map[FileB] # 0
    /\ docVer[FileB] = 0
    /\ out = <<>>
    /\ LET item == items[map[FileB]] IN
       /\ ~item.opened /\ item.document = "null" /\ item.version = 1
       /\ item.fresh
       /\ \E q \in 1..Len(reloads) :
              /\ reloads[q].item = map[FileB]
              /\ reloads[q].hasDocumentBefore
              /\ reloads[q].phase = "done"

\* --------------------------------------------------------------------- C12
\* what happens between two beFresh calls when no track, untrack, document
\* or watch event does: ignore, notIgnore, other beFresh calls and the
\* completions of reads and hooks
QuietStep ==
    \/ \E p \in IgnoredPaths : ignore(p) \/ notIgnore(p)
    \/ \E c \in 1..MaxCalls : beFresh(c)
    \/ \E pid \in 1..MaxReloads, ok \in BOOLEAN : ReadDone(pid, ok) \/ HookDone(pid, ok)

\* a beFresh call that finds allFresh returns at once and does nothing
FreshNoOp ==
    \A c \in 1..MaxCalls :
        (allFresh /\ beFresh(c))
        => /\ UNCHANGED <<map, items, ignoredFilePaths, allFresh, startPathLoaded,
                          reloads, tasks>>
           /\ out' = <<Ev("resolved", c, c)>>
           /\ calls'[c].phase = "resolved"
           /\ \A d \in 1..MaxCalls : ~FreeCall(d) => calls'[d] = calls[d]

\* C12: a beFresh call made after a beFresh call has resolved, with no
\* track, untrack, document or watch event in between, is a no-op.  A call
\* resolves with allFresh = true, allFresh stays true until such an event,
\* and a call that finds it true reads nothing, fires no hook, changes no
\* record and returns at once.
C12_SecondBeFreshNoOp ==
    /\ [](\A c \in 1..MaxCalls : calls[c].phase = "resolved" => allFresh)
    /\ [][((allFresh /\ ~allFresh') => ~QuietStep) /\ FreshNoOp]_vars

\* without updateImmediately: a beFresh call has returned at once, with
\* nothing to update, and the record it found was loaded for an earlier call
C12_Witness ==
    /\ ~updateImmediately
    /\ \E c \in 1..MaxCalls :
        /\ calls[c].phase = "resolved"
        /\ out = <<Ev("resolved", c, c)>>
        /\ calls[c].targets = {} /\ calls[c].waits = {}
        /\ calls[c].snap # {}
        /\ \A i \in calls[c].snap :
              /\ items[i].fresh
              /\ \E q \in 1..Len(reloads) : reloads[q].item = i /\ reloads[q].phase = "done"
    /\ \A q \in 1..Len(reloads) : ~InFlight(reloads[q])

\* --------------------------------------------------------------------- C13
\* C13: every beFresh call eventually resolves, whatever events came before
\* and also when reads fail, given that each getStat, glob, readText and
\* onUpdate that was called completes.
C13_BeFreshResolves ==
    \A c \in 1..MaxCalls :
        (calls[c].phase \in {"scan", "wait"}) ~> (calls[c].phase = "resolved")

\* --------------------------------------------------------------------- C14
\* C14: when a reload has completed, with success or with an error of the
\* read or of onUpdate, the updatePromise of its record is cleared, so that
\* the next doUpdate of the record starts a new load.
C14_HandleCleared ==
    \A pid \in 1..Len(reloads) :
        reloads[pid].phase \in {"done", "failed"}
        => items[reloads[pid].item].updatePromise # pid

\* --------------------------------------------------------------------- C15
\* readText of reload pid has thrown: the reload goes on with no document
ReadFailed(pid) ==
    LET i == reloads[pid].item IN
    /\ items'[i] = [items[i] EXCEPT !.document = "null", !.fresh = TRUE]
    /\ out' = <<Ev("onUpdate", i, Handler)>>
    /\ reloads'[pid].phase = "hook"
    /\ map' = map
    /\ \A c \in 1..MaxCalls : ~FreeCall(c) => calls'[c] = calls[c]

\* C15: when the disk read of a reload fails the reload still completes: the
\* record has no document and is fresh, onUpdate is invoked once for it, the
\* record stays in the map, and the error reaches neither the handler nor
\* the beFresh calls that await the reload (a reload fails, and a call is
\* rejected, only by an error of onUpdate).
C15_ReadErrorAbsorbed ==
    /\ [][\A pid \in 1..MaxReloads :
             /\ ReadDone(pid, FALSE) => ReadFailed(pid)
             /\ (pid <= Len(reloads) /\ reloads[pid].phase # "failed"
                 /\ reloads'[pid].phase = "failed") => reloads[pid].phase = "hook"]_vars
    /\ [](\A c \in 1..MaxCalls :
             calls[c].phase = "rejected"
             => \E pid \in calls[c].waits : reloads[pid].phase = "failed")

\* readText has just failed for a tracked record that a beFresh call waits
\* for: the record is fresh without a document, onUpdate has been invoked
\* and the call is still waiting
C15_Witness ==
    \E pid \in 1..Len(reloads) :
        LET i == reloads[pid].item IN
        /\ out = <<Ev("onUpdate", i, Handler)>>
        /\ reloads[pid].phase = "hook" /\ ~reloads[pid].hasDocumentBefore
        /\ items[i].document = "null" /\ items[i].fresh
        /\ map[items[i].path] = i
        /\ \E c \in 1..MaxCalls : calls[c].phase = "wait" /\ pid \in calls[c].waits

\* --------------------------------------------------------------------- C16
\* getStat answers "file" to the trackPath of a Created event for a
\* trackable path that has no record: trackFile creates one
TrackNew(p) ==
    /\ map[p] = 0
    /\ \E t \in WatchTasks : t.kind = "stat" /\ t.path = p /\ StatDone(t, "file")

\* one new record, closed, not fresh, without document; reload tells whether
\* updateImmediately starts a reload of it
TrackEffect(p, reload) ==
    LET j == Len(items) + 1 IN
    /\ items' = Append(items, [NewItem(p, "null", 0, FALSE) EXCEPT
                                  !.updatePromise = IF updateImmediately /\ reload
                                                    THEN Len(reloads) + 1 ELSE 0])
    /\ map' = [map EXCEPT ![p] = j]
    /\ IF updateImmediately
       THEN /\ Count(out', "onTrack", j) = 0
            /\ allFresh' = allFresh
            /\ IF reload
               THEN /\ reloads' = Append(reloads, [item |-> j, phase |-> "read",
                                                   hasDocumentBefore |-> FALSE])
                    /\ Count(out', "read", j) = 1
               ELSE /\ reloads' = reloads
                    /\ Count(out', "read", j) = 0
       ELSE /\ reloads' = reloads
            /\ allFresh' = FALSE
            /\ out' = <<Ev("onTrack", j, Handler)>>

\* C16 as stated: track of a trackable path with no record creates exactly
\* one record with no content, version 0, closed and not fresh; under
\* updateImmediately a reload of it starts at once and onTrack is not fired,
\* otherwise no reload starts, allFresh becomes false and onTrack fires once.
C16_TrackCreates ==
    [][\A p \in Files : TrackNew(p) => TrackEffect(p, TRUE)]_vars

\* C16 amended: ... under updateImmediately a reload of it starts at once
\* unless the path is in ignoredFilePaths, in which case no reload starts;
\* onTrack is not fired in either case.
C16_TrackCreatesUnlessIgnored ==
    [][\A p \in Files : TrackNew(p) => TrackEffect(p, p \notin ignoredFilePaths)]_vars

\* under updateImmediately an ignored path has just been tracked: its new
\* record is in the map and no reload of it has started
C16_Witness ==
    /\ updateImmediately
    /\ \E p \in Files :
        LET j == map[p] IN
        /\ j # 0 /\ j = Len(items)
        /\ p \in ignoredFilePaths
        /\ out = <<Ev("doUpdate", j, Handler), Ev("skip", j, Handler)>>
        /\ items[j] = NewItem(p, "null", 0, FALSE)
        /\ \A q \in 1..Len(reloads) : reloads[q].item # j

\* --------------------------------------------------------------------- C17
\* a document event for a path that has a record
OpenedTracked(p, v) ==
    /\ map[p] # 0
    /\ onDocumentOpenOrContentChanged(p, v)

\* the document is attached
Attached(i, v) ==
    /\ items'[i].document = "buffer"
    /\ items'[i].version = v
    /\ items'[i].opened

\* C17 as stated: on a document event for a path that has a record, the
\* document is attached, the version updated and the record marked open
\* only if the document's version is greater than the record's; otherwise
\* document, version and opened of the record are left as they are.
C17_AttachIfNewer ==
    [][\A p \in Files, v \in 1..MaxVersion :
          OpenedTracked(p, v)
          => LET i == map[p] IN
             IF v > items[i].version
             THEN Attached(i, v)
             ELSE /\ items'[i].document = items[i].document
                  /\ items'[i].version = items[i].version
                  /\ items'[i].opened = items[i].opened]_vars

\* C17 amended: on a document event for a path that has a record, the
\* document is attached, the version set to the document's and the record
\* marked open whatever the two versions are; that the document's version is
\* greater decides only whether a fresh record is expired.
C17_AttachAlways ==
    [][\A p \in Files, v \in 1..MaxVersion :
          OpenedTracked(p, v)
          => LET i == map[p] IN
             /\ Attached(i, v)
             /\ (items'[i].fresh # items[i].fresh) => (v > items[i].version)]_vars

\* a record read from disk (version 1) has had its document opened at
\* version 1: the document is attached and the record is open, still fresh
C17_Witness ==
    /\ Len(reloads) = 1
    /\ reloads[1].phase = "done" /\ ~reloads[1].hasDocumentBefore
    /\ LET i == reloads[1].item IN
       /\ map[items[i].path] = i
       /\ docVer[items[i].path] = 1
       /\ items[i].opened /\ items[i].document = "buffer" /\ items[i].version = 1
       /\ items[i].fresh
    /\ out = <<>>

\* --------------------------------------------------------------------- C18
\* C18: while a record is open its version never decreases and its document
\* stays the one the editor delivered: the completion of a reload, also of
\* one started before the document was attached, does not replace it with
\* what was read from disk and does not set the version back to 1.
C18_OpenKeepsBuffer ==
    [][\A i \in 1..Len(items) :
          (items[i].opened /\ items'[i].opened)
          => /\ items'[i].version >= items[i].version
             /\ items'[i].document = "buffer"]_vars

\* --------------------------------------------------------------------- C19
\* a Changed event for the closed record i has just been handled while the
\* read of its reload is pending: under updateImmediately handleExpired has
\* joined the reload, otherwise it has expired the record
ChangedDuringRead(i) ==
    /\ i \in 1..Len(items)
    /\ map[items[i].path] = i
    /\ ~items[i].opened /\ docVer[items[i].path] = 0
    /\ items[i].updatePromise # 0
    /\ reloads[items[i].updatePromise].phase = "read"
    /\ out = IF updateImmediately
             THEN <<Ev("doUpdate", i, Handler), Ev("join", i, Handler)>>
             ELSE <<Ev("onExpired", i, Handler)>>

\* C19: no lost change.  When a Changed event for a closed tracked file
\* arrives while a reload of its record is in flight, a disk read that
\* starts after the event follows, and the record is never left fresh with
\* content that was read before the event: the read that was pending when
\* the event came does not make the record fresh.
C19_NoLostChange ==
    [][\A i \in 1..MaxItems :
          (ChangedDuringRead(i) /\ reloads'[items[i].updatePromise].phase = "hook")
          => ~items'[i].fresh]_vars

\* --------------------------------------------------------------------- C20
\* notIgnore(p) has just been called while the record of p was not fresh
RestoredStale(p) ==
    /\ map[p] # 0
    /\ out = <<Ev("notIgnore", map[p], Handler)>>
    /\ p \notin ignoredFilePaths
    /\ ~items[map[p]].fresh

\* C20: when a record is not fresh at the time notIgnore(path) is called,
\* the next beFresh call reloads it: the call awaits a reload of the record
\* and the record is fresh when the call resolves, under both policies and
\* also when a beFresh call has resolved while the path was ignored.
C20_NotIgnoreThenFresh ==
    [][\A p \in IgnoredPaths, c \in 1..MaxCalls :
          (RestoredStale(p) /\ beFresh(c))
          => LET i == map[p] IN
             IF calls'[c].phase = "resolved"
             THEN items'[i].fresh
             ELSE /\ calls'[c].phase = "wait"
                  /\ items'[i].updatePromise \in calls'[c].waits]_vars

=============================================================================
